---- MODULE Spec2Model ----
(***************************************************************************)
(* Model of the moonrise calendar service (src/src/main.rs) and of the     *)
(* location decoding of the search side (src/src/models.rs).               *)
(*                                                                         *)
(* Time.  Unix timestamps are integer seconds.  A Julian Day value (an f64 *)
(* in the source) is represented exactly as a pair <<d, s>>: d whole days  *)
(* plus s seconds, 0 <= s < 86400.  Anchors are whole seconds and the      *)
(* longitudes drawn are whole degrees (lon/360 day = lon*240 s), so every  *)
(* Julian value met is a whole number of seconds and the f64 arithmetic is *)
(* modelled as exact.                                                      *)
(*                                                                         *)
(* Option<T>: None is <<>>, Some(v) is <<v>>.                              *)
(***************************************************************************)
EXTENDS Integers, Sequences, FiniteSets, TLC

\* ------------------------------------------------------------------ bounds
MaxDays == 3

\* ------------------------------------------------------- program constants
SecondsPerDay == 86400
JulianEpochDay == 2440587
JulianEpochSecs == 43200
ProximityThreshold == 500
SecondsPerMinute == 60
SecondsPerDegree == 240

\* ------------------------------------------------------------------ Option
None == <<>>
Some(v) == <<v>>
is_some(o) == Len(o) = 1
unwrap(o) == o[1]

\* ------------------------------------------------------------ input domains
Lats == {41}
Lons == {-74, 135}
Nows == {1700000000, 1700020800}
Befores == {0, 30}
Afters == {45}
Summaries == {None, Some("Full moon")}
ValidTimezones == {"UTC", "America/New_York"}
Timezones == {None, Some("America/New_York"), Some("Not/AZone")}

\* instants the moonrise oracle may answer, relative to the first boundary
OracleOffsets == {20000, 20100, 21000, 110000}

CreateCalendar ==
    [lat : Lats, lon : Lons, before : Befores, after : Afters,
     number_of_days : 0..MaxDays, summary : Summaries, timezone : Timezones]

\* ------------------------------------------------- Julian Date Converter
JdNorm(d, s) == <<d + (s \div SecondsPerDay), s % SecondsPerDay>>

\* (timestamp as f64 / 86400.0) + 2440587.5
unix_to_julian(timestamp) == JdNorm(JulianEpochDay, JulianEpochSecs + timestamp)

\* ((jd - 2440587.5) * 86400.0).round() as i64
julian_to_unix(jd) ==
    (jd[1] - JulianEpochDay) * SecondsPerDay + (jd[2] - JulianEpochSecs)

JdFloor(jd) == <<jd[1], 0>>
JdAddSecs(jd, secs) == JdNorm(jd[1], jd[2] + secs)
JdAddDays(jd, n) == <<jd[1] + n, jd[2]>>

\* local + Duration::days(i)
AnchorOf(l, n) == l + n * SecondsPerDay

\* (unix_to_julian(l.timestamp()) + lon / 360.0 + 0.5).floor() - 0.5
DayBoundary(l, lon) ==
    JdAddSecs(
        JdFloor(JdAddSecs(JdAddSecs(unix_to_julian(l), lon * SecondsPerDegree),
                          JulianEpochSecs)),
        -JulianEpochSecs)

\* variant: the re-query overshoots the next boundary (jd + 2.)
RequeryTwoDaysOn(b) == JdAddDays(b, 2)

\* jd + 1.
RequeryBoundary(b) == JdAddDays(b, 1)

\* variant: a missing first result is corrected as well
TooCloseOrMissing(next, previous) ==
    ~is_some(next) \/ unwrap(next) - previous <= ProximityThreshold

\* next_moonrise.is_some() && next_moonrise.unwrap() - previous_moonrise <= 500
TooClose(next, previous) ==
    is_some(next) /\ unwrap(next) - previous <= ProximityThreshold

\* variant: the offsets are taken as seconds (Duration::seconds)
MinutesAsSeconds(n) == n

\* Duration::minutes(n)
Minutes(n) == n * SecondsPerMinute

\* ------------------------------------------------------- FeatureClass
Panic == <<"panic", "called Option::unwrap() on a None value">>

Letters == {"A", "H", "L", "P", "R", "S", "T", "U", "V", "X"}
MaxCodeLen == 2
FeatureCodes == UNION {[1..n -> Letters] : n \in 0..MaxCodeLen}
Locations == {<<-74, 41>>, <<135, -35>>}

FeatureClassOf(c) ==
    CASE c = "A" -> Some("Region")
      [] c = "H" -> Some("WaterBody")
      [] c = "L" -> Some("Area")
      [] c = "P" -> Some("City")
      [] c = "R" -> Some("Road")
      [] c = "S" -> Some("Spot")
      [] c = "T" -> Some("Hill")
      [] c = "U" -> Some("Undersea")
      [] c = "V" -> Some("Forest")
      [] OTHER -> None

\* FeatureClass::from_str
from_str(s) ==
    IF Len(s) # 1
    THEN IF Len(s) = 0 THEN Panic ELSE FeatureClassOf(s[1])
    ELSE None

\* LocationResponse::from_source_with_id
from_source_with_id(id, source) ==
    [id |-> id,
     latitude |-> source.location[Len(source.location)],
     longitude |-> source.location[1],
     feature_class |-> from_str(source.feature_class)]

VARIABLES
    payload,            \* the decoded form of the request
    local,              \* Utc::now() read by generate_moonrises
    pc,                 \* position of the /ical handler
    i,                  \* loop index of generate_moonrises
    jd,                 \* day boundary of the current iteration
    next_moonrise,      \* Option<i64>
    previous_moonrise,  \* i64
    moonrises,          \* Vec<i64>
    oracle,             \* answers get_moonrise has given: set of <<ts, Option>>
    calls,              \* history of the get_moonrise calls of this request
    tz,                 \* parsed timezone
    calendar,           \* events pushed so far
    response,           \* Option<response>
    hit,                \* a hit of the search index
    search_pc,          \* position of get_locations
    data                \* Vec<LocationResponse>

calVars == <<payload, local, pc, i, jd, next_moonrise, previous_moonrise,
             moonrises, oracle, calls, tz, calendar, response>>
searchVars == <<hit, search_pc, data>>
vars == <<payload, local, pc, i, jd, next_moonrise, previous_moonrise,
          moonrises, oracle, calls, tz, calendar, response,
          hit, search_pc, data>>

\* --------------------------------------------------------------- oracle
FirstBoundary == julian_to_unix(DayBoundary(local, payload.lon))

OracleAnswers ==
    {None} \cup {Some(FirstBoundary + o) : o \in OracleOffsets}

Known(ts) == \E p \in oracle : p[1] = ts

\* get_moonrise(ts, lon, lat): a pure function of its arguments; lon and lat
\* are fixed within a request.  answer is the value it returns for ts.
get_moonrise(ts, answer) ==
    /\ IF Known(ts) THEN <<ts, answer>> \in oracle
                    ELSE answer \in OracleAnswers
    /\ oracle' = oracle \cup {<<ts, answer>>}
    /\ calls' = Append(calls, [day |-> i, ts |-> ts, res |-> answer,
                               prev |-> previous_moonrise,
                               accepted |-> Len(moonrises)])

\* ------------------------------------------------------------------ Init
IdleSearch ==
    /\ hit = [id |-> "0", location |-> <<0, 0>>, feature_class |-> <<>>]
    /\ search_pc = "idle"
    /\ data = <<>>

Init ==
    /\ payload \in CreateCalendar
    /\ local \in Nows
    /\ pc = "loop"
    /\ i = 0
    /\ jd = <<0, 0>>
    /\ next_moonrise = None
    /\ previous_moonrise = 0
    /\ moonrises = <<>>
    /\ oracle = {}
    /\ calls = <<>>
    /\ tz = None
    /\ calendar = <<>>
    /\ response = None
    /\ IdleSearch

\* ------------------------------------------------- generate_moonrises
FirstQuery ==
    /\ pc = "loop"
    /\ i < payload.number_of_days
    /\ LET b == DayBoundary(AnchorOf(local, i), payload.lon) IN
       /\ jd' = b
       /\ \E answer \in OracleAnswers :
            /\ get_moonrise(julian_to_unix(b), answer)
            /\ next_moonrise' = answer
    /\ pc' = "check"
    /\ UNCHANGED <<payload, local, i, previous_moonrise, moonrises, tz,
                   calendar, response, searchVars>>

Requery ==
    /\ pc = "check"
    /\ TooClose(next_moonrise, previous_moonrise)
    /\ \E answer \in OracleAnswers :
         /\ get_moonrise(julian_to_unix(RequeryBoundary(jd)), answer)
         /\ next_moonrise' = answer
    /\ pc' = "record"
    /\ UNCHANGED <<payload, local, i, jd, previous_moonrise, moonrises, tz,
                   calendar, response, searchVars>>

NoRequery ==
    /\ pc = "check"
    /\ ~TooClose(next_moonrise, previous_moonrise)
    /\ pc' = "record"
    /\ UNCHANGED <<payload, local, i, jd, next_moonrise, previous_moonrise,
                   moonrises, oracle, calls, tz, calendar, response,
                   searchVars>>

\* variant: the accepted instant is pushed but previous_moonrise is kept
AcceptKeepsPrevious ==
    /\ pc = "record"
    /\ is_some(next_moonrise)
    /\ moonrises' = Append(moonrises, unwrap(next_moonrise))
    /\ i' = i + 1
    /\ pc' = "loop"
    /\ UNCHANGED <<payload, local, jd, next_moonrise, previous_moonrise,
                   oracle, calls, tz, calendar, response, searchVars>>

Accept ==
    /\ pc = "record"
    /\ is_some(next_moonrise)
    /\ previous_moonrise' = unwrap(next_moonrise)
    /\ moonrises' = Append(moonrises, unwrap(next_moonrise))
    /\ i' = i + 1
    /\ pc' = "loop"
    /\ UNCHANGED <<payload, local, jd, next_moonrise, oracle, calls, tz,
                   calendar, response, searchVars>>

\* variant: a day without moonrise repeats the previous accepted instant
SkipPushesPrevious ==
    /\ pc = "record"
    /\ ~is_some(next_moonrise)
    /\ moonrises' = Append(moonrises, previous_moonrise)
    /\ i' = i + 1
    /\ pc' = "loop"
    /\ UNCHANGED <<payload, local, jd, next_moonrise, previous_moonrise,
                   oracle, calls, tz, calendar, response, searchVars>>

Skip ==
    /\ pc = "record"
    /\ ~is_some(next_moonrise)
    /\ i' = i + 1
    /\ pc' = "loop"
    /\ UNCHANGED <<payload, local, jd, next_moonrise, previous_moonrise,
                   moonrises, oracle, calls, tz, calendar, response,
                   searchVars>>

Return ==
    /\ pc = "loop"
    /\ i >= payload.number_of_days
    /\ pc' = "timezone"
    /\ UNCHANGED <<payload, local, i, jd, next_moonrise, previous_moonrise,
                   moonrises, oracle, calls, tz, calendar, response,
                   searchVars>>

\* --------------------------------------------------- generate_calendar
\* payload.timezone.unwrap_or_else(|| "UTC".to_string())
TimezoneName == IF is_some(payload.timezone) THEN unwrap(payload.timezone)
                                             ELSE "UTC"

\* payload.summary.unwrap_or_else(|| "Moonrise".to_string())
SummaryText == IF is_some(payload.summary) THEN unwrap(payload.summary)
                                           ELSE "Moonrise"

\* .parse().unwrap() of the timezone name
ParseTimezone ==
    /\ pc = "timezone"
    /\ TimezoneName \in ValidTimezones
    /\ tz' = Some(TimezoneName)
    /\ pc' = "events"
    /\ UNCHANGED <<payload, local, i, jd, next_moonrise, previous_moonrise,
                   moonrises, oracle, calls, calendar, response, searchVars>>

ParseTimezonePanic ==
    /\ pc = "timezone"
    /\ TimezoneName \notin ValidTimezones
    /\ pc' = "panicked"
    /\ UNCHANGED <<payload, local, i, jd, next_moonrise, previous_moonrise,
                   moonrises, oracle, calls, tz, calendar, response,
                   searchVars>>

\* the event of one moonrise
EventOf(moonrise) ==
    [summary |-> SummaryText,
     description |-> <<"Moonrise @ ", [instant |-> moonrise, zone |-> unwrap(tz)]>>,
     starts |-> moonrise - Minutes(payload.before),
     ends |-> moonrise + Minutes(payload.after)]

PushEvent ==
    /\ pc = "events"
    /\ Len(calendar) < Len(moonrises)
    /\ calendar' = Append(calendar, EventOf(moonrises[Len(calendar) + 1]))
    /\ UNCHANGED <<payload, local, pc, i, jd, next_moonrise,
                   previous_moonrise, moonrises, oracle, calls, tz, response,
                   searchVars>>

Respond ==
    /\ pc = "events"
    /\ Len(calendar) >= Len(moonrises)
    /\ response' = Some([status |-> 200,
                         content_type |-> "application/octet-stream; charset=utf-8",
                         content_disposition |-> "attachment; filename=\"moonrises.ical\"",
                         content |-> calendar])
    /\ pc' = "done"
    /\ UNCHANGED <<payload, local, i, jd, next_moonrise, previous_moonrise,
                   moonrises, oracle, calls, tz, calendar, searchVars>>

Next ==
    \/ FirstQuery
    \/ Requery
    \/ NoRequery
    \/ Accept
    \/ Skip
    \/ Return
    \/ ParseTimezone
    \/ ParseTimezonePanic
    \/ PushEvent
    \/ Respond

Spec == Init /\ [][Next]_vars

\* ------------------------------------------------- history of the calls
Abs(x) == IF x < 0 THEN -x ELSE x

CallIdx(d) == {k \in 1..Len(calls) : calls[k].day = d}
NCalls(d) == Cardinality(CallIdx(d))
FirstCall(d) == calls[CHOOSE k \in CallIdx(d) : \A m \in CallIdx(d) : k <= m]
LastCall(d) == calls[CHOOSE k \in CallIdx(d) : \A m \in CallIdx(d) : k >= m]

\* days whose proximity check has been decided / whose iteration has ended
Checked(d) == d < i \/ (d = i /\ pc = "record")
Ended(d) == d < i
Days == 0..(payload.number_of_days - 1)
Finished == pc \in {"done", "panicked"}

RECURSIVE FinalResults(_)
FinalResults(d) ==
    IF d = 0 THEN <<>>
    ELSE IF is_some(LastCall(d - 1).res)
         THEN Append(FinalResults(d - 1), unwrap(LastCall(d - 1).res))
         ELSE FinalResults(d - 1)

LastOrInitial(s) == IF Len(s) = 0 THEN 0 ELSE s[Len(s)]

\* C1: the sequence returned by generate_moonrises is non-decreasing and no
\* two consecutive accepted instants are less than 500 seconds apart, also
\* when an instant was accepted from the re-query at jd + 1.
C1_SpacedOutput ==
    \A k \in 1..(Len(moonrises) - 1) :
        /\ moonrises[k + 1] >= moonrises[k]
        /\ moonrises[k + 1] - moonrises[k] >= ProximityThreshold

\* C2: a day re-queries the oracle exactly when its first query returned a
\* result within 500 seconds, in either direction, of the previous accepted
\* moonrise; never while nothing has been accepted yet.
C2_RequeryIffWithin ==
    \A d \in Days :
        Checked(d) =>
            ((NCalls(d) = 2) <=>
                /\ is_some(FirstCall(d).res)
                /\ FirstCall(d).accepted > 0
                /\ Abs(unwrap(FirstCall(d).res) - FirstCall(d).prev)
                       <= ProximityThreshold)

\* C3: the output holds exactly one entry for each ended day whose final
\* oracle result is present, in day order, and none for any other day; its
\* length is between 0 and N, and the loop ends after N days.
C3_OneEntryPerPresentDay ==
    /\ i <= payload.number_of_days
    /\ moonrises = FinalResults(i)
    /\ Len(moonrises) <= i
    /\ pc \notin {"loop", "check", "record"} => i = payload.number_of_days

C3_Witness ==
    /\ pc = "timezone"
    /\ payload.number_of_days = 3
    /\ Len(moonrises) = 2
    /\ ~is_some(LastCall(1).res)
    /\ NCalls(2) = 2

\* C4: the end of an iteration whose final result is none leaves the output
\* and previous-accepted unchanged; with a final result present it appends
\* the instant and sets previous-accepted to it; previous-accepted is then
\* the last element of the output, or its initial value when that is empty.
C4_RecordFrame ==
    [][(pc = "record" /\ pc' # "record") =>
          /\ IF is_some(next_moonrise)
             THEN /\ moonrises' = Append(moonrises, unwrap(next_moonrise))
                  /\ previous_moonrise' = unwrap(next_moonrise)
             ELSE /\ moonrises' = moonrises
                  /\ previous_moonrise' = previous_moonrise
          /\ previous_moonrise' = LastOrInitial(moonrises')]_vars

C4_Witness ==
    /\ pc = "loop"
    /\ i = 2
    /\ NCalls(1) = 2
    /\ ~is_some(LastCall(1).res)
    /\ Len(moonrises) = 1
    /\ previous_moonrise = moonrises[1]

\* C5: the oracle is called at most twice per day, a second call only after
\* a first call that returned a result; a first miss ends the day's calls;
\* over N days the oracle is called between N and 2N times.
C5_AtMostOneCorrection ==
    /\ \A d \in Days :
          /\ NCalls(d) <= 2
          /\ NCalls(d) = 2 => is_some(FirstCall(d).res)
          /\ Ended(d) => NCalls(d) >= 1
          /\ (Ended(d) /\ ~is_some(FirstCall(d).res)) => NCalls(d) = 1
    /\ \A k \in 1..Len(calls) : calls[k].day \in Days
    /\ pc \notin {"loop", "check", "record"} =>
          /\ Len(calls) >= payload.number_of_days
          /\ Len(calls) <= 2 * payload.number_of_days

C5_Witness ==
    /\ pc = "done"
    /\ payload.number_of_days = 3
    /\ NCalls(0) = 1 /\ ~is_some(FirstCall(0).res)
    /\ NCalls(1) = 1 /\ is_some(FirstCall(1).res)
    /\ NCalls(2) = 2

\* C6: with an invalid timezone name generate_calendar does not panic: it
\* completes the response, the descriptions rendered in UTC.
C6_BadTimezoneFallsBack ==
    (TimezoneName \notin ValidTimezones /\ pc \notin {"loop", "check", "record", "timezone"}) =>
        /\ pc # "panicked"
        /\ \A k \in 1..Len(calendar) : calendar[k].description[2].zone = "UTC"

\* C8: every event has start = m - before*60 and end = m + after*60 for its
\* moonrise instant m, whatever the timezone and the summary.
C8_EventBounds ==
    \A k \in 1..Len(calendar) :
        /\ k <= Len(moonrises)
        /\ calendar[k].starts = moonrises[k] - payload.before * 60
        /\ calendar[k].ends = moonrises[k] + payload.after * 60

C8_Witness ==
    /\ Len(calendar) = 2
    /\ payload.before = 30
    /\ payload.after = 45
    /\ payload.timezone = Some("America/New_York")
    /\ calendar[2].ends - calendar[2].starts = 4500

\* C9: the document holds one event per accepted instant, in the order of
\* the generator's output, equal instants kept; with zero instants the
\* handler still answers successfully with a document of zero events.
C9_OneEventPerInstant ==
    Finished =>
        /\ is_some(response)
        /\ unwrap(response).status = 200
        /\ Len(unwrap(response).content) = Len(moonrises)
        /\ \A k \in 1..Len(moonrises) :
              unwrap(response).content[k].description[2].instant = moonrises[k]

\* C10: the boundaries of consecutive days differ by exactly one day, so a
\* day's re-query boundary is the next day's first boundary; when a day
\* accepts its re-query result, the next day's first query returns the same
\* instant, at distance 0 from previous-accepted, and re-queries too; a
\* re-query that returns none is met again by the next day's first query.
C10_CorrectionCascades ==
    \A d \in Days :
        (d + 1 \in Days /\ NCalls(d + 1) >= 1) =>
            /\ FirstCall(d + 1).ts = FirstCall(d).ts + SecondsPerDay
            /\ NCalls(d) = 2 =>
                  /\ LastCall(d).ts = FirstCall(d + 1).ts
                  /\ FirstCall(d + 1).res = LastCall(d).res
                  /\ is_some(LastCall(d).res) =>
                        /\ FirstCall(d + 1).prev = unwrap(LastCall(d).res)
                        /\ Checked(d + 1) => NCalls(d + 1) = 2

C10_Witness ==
    /\ pc = "loop"
    /\ i = 3
    /\ NCalls(0) = 1
    /\ NCalls(1) = 2 /\ is_some(LastCall(1).res)
    /\ NCalls(2) = 2 /\ is_some(LastCall(2).res)
    /\ FirstCall(2).res = LastCall(1).res

\* ------------------------------------------------------- search side
IdleCalendar ==
    /\ payload = [lat |-> 41, lon |-> 135, before |-> 0, after |-> 45,
                  number_of_days |-> 0, summary |-> None, timezone |-> None]
    /\ local = 1700000000
    /\ pc = "idle"
    /\ i = 0
    /\ jd = <<0, 0>>
    /\ next_moonrise = None
    /\ previous_moonrise = 0
    /\ moonrises = <<>>
    /\ oracle = {}
    /\ calls = <<>>
    /\ tz = None
    /\ calendar = <<>>
    /\ response = None

InitSearch ==
    /\ hit \in [id : {"5128581"}, location : Locations,
                feature_class : FeatureCodes]
    /\ search_pc = "hits"
    /\ data = <<>>
    /\ IdleCalendar

\* get_locations: data.push(LocationResponse::from_source_with_id(..))
PushLocation ==
    /\ search_pc = "hits"
    /\ from_source_with_id(hit.id, hit).feature_class # Panic
    /\ data' = Append(data, from_source_with_id(hit.id, hit))
    /\ search_pc' = "done"
    /\ UNCHANGED <<hit, calVars>>

PushLocationPanic ==
    /\ search_pc = "hits"
    /\ from_source_with_id(hit.id, hit).feature_class = Panic
    /\ search_pc' = "panicked"
    /\ UNCHANGED <<hit, data, calVars>>

NextSearch ==
    \/ PushLocation
    \/ PushLocationPanic

SpecSearch == InitSearch /\ [][NextSearch]_vars

\* the documented decoding of a feature-class code
DocumentedClass(s) ==
    IF s = <<"A">> THEN Some("Region")
    ELSE IF s = <<"H">> THEN Some("WaterBody")
    ELSE IF s = <<"L">> THEN Some("Area")
    ELSE IF s = <<"P">> THEN Some("City")
    ELSE IF s = <<"R">> THEN Some("Road")
    ELSE IF s = <<"S">> THEN Some("Spot")
    ELSE IF s = <<"T">> THEN Some("Hill")
    ELSE IF s = <<"U">> THEN Some("Undersea")
    ELSE IF s = <<"V">> THEN Some("Forest")
    ELSE None

\* C7: from_str maps each single-letter code A, H, L, P, R, S, T, U, V to
\* its category and every other input, the empty string and longer strings
\* included, to None, without panicking.
C7_SingleLetterDecoding ==
    search_pc # "hits" =>
        /\ search_pc = "done"
        /\ Len(data) = 1
        /\ data[1].feature_class = DocumentedClass(hit.feature_class)

====
